---- MODULE Spec2Model ----
(***************************************************************************)
(* Model of src/constrained.py: the Constrained base class, the _constrain *)
(* method wrapper and the derived containers Vec, Array and StrArray.      *)
(*                                                                         *)
(* A Python value is a record [cls, id, items]: cls is the name of its     *)
(* runtime class, id tells values of one class apart, items are the        *)
(* elements of a list.  A __constraints__ tuple is a sequence of class     *)
(* names; "~T" is the unresolved type variable T.                          *)
(***************************************************************************)
EXTENDS Integers, Sequences, FiniteSets, TLC

\* classes: the class-level __constraints__ of each derived type;
\* insts: the containers; last: the last construction or method call;
\* probe: the last isinstance / issubclass check; chain: the calls made so
\* far by the guards of the construction or assignment being followed
VARIABLES classes, insts, last, probe, chain

vars == <<classes, insts, last, probe, chain>>

-----------------------------------------------------------------------------
(* Bounds *)

MaxInst == 2
MaxLen == 2
MaxArgLen == 2
MaxMul == 2
MaxLenMulti == 1
MaxMro == 2
MaxLevel == 3
RecursionLimit == 30

-----------------------------------------------------------------------------
(* Python values *)

IntVal(n) == [cls |-> "int", id |-> n, items |-> <<>>]
StrVal(n) == [cls |-> "str", id |-> n, items |-> <<>>]
FloatVal(n) == [cls |-> "float", id |-> n, items |-> <<>>]
ListVal(s) == [cls |-> "list", id |-> 0, items |-> s]

Range(s) == {s[k] : k \in 1..Len(s)}

SeqsUpTo(S, n) == UNION {[1..k -> S] : k \in 0..n}

\* isinstance(a, Iterable): lists and strings are iterable, numbers are not
IsIterable(a) == a.cls \in {"list", "str"}

\* the elements `for e in a` yields; a one-character string yields itself
Iter(a) == IF a.cls = "list" THEN a.items
           ELSE IF a.cls = "str" THEN <<a>>
           ELSE <<>>

\* bool(e.__class__): a class object is always truthy
Truthy(c) == TRUE

\* isinstance(t, TypeVar)
IsTypeVar(t) == t = "~T"

-----------------------------------------------------------------------------
(* Error messages of the TypeErrors the module raises *)

ErrArgument == "Invalid type for argument"
ErrElements == "Invalid element types"
ErrValue == "Invalid value type for Constrained class"

\* the result of one call: how it ended, the message of the exception, the
\* element list afterwards and the value returned
Returned(d, r) == [outcome |-> "returned", msg |-> "", data |-> d, ret |-> r]
Raised(exc, m, d) == [outcome |-> exc, msg |-> m, data |-> d, ret |-> "-"]

-----------------------------------------------------------------------------
(* _constrain: the type check wrapped around the mutating methods *)

\* all(e.__class__ for e in a)
AllClassesTruthy(a) == \A k \in 1..Len(Iter(a)) : Truthy(Iter(a)[k].cls)

\* `a.__class__ in self.__constraints__`
ClassIn(a, c) == a.cls \in Range(c)

\* the loop over args from position k on: "call" when m is invoked,
\* "raise_elements" / "raise_argument" for the two TypeErrors, "fallthrough"
\* when the loop ends and the wrapper returns None without calling m
RECURSIVE ConstrainLoop(_, _, _)
ConstrainLoop(c, args, k) ==
    IF k > Len(args) THEN "fallthrough"
    ELSE IF ~ClassIn(args[k], c)
         THEN IF IsIterable(args[k])
              THEN IF ~AllClassesTruthy(args[k])
                   THEN "raise_elements"
                   ELSE ConstrainLoop(c, args, k + 1)
              ELSE "raise_argument"
         ELSE "call"

\* a wrapper that invokes m before it checks the arguments
ConstrainCallFirst(c, args, data, m) ==
    LET v == ConstrainLoop(c, args, 1) IN
    IF v = "call" THEN m
    ELSE IF v = "raise_elements" THEN Raised("TypeError", ErrElements, m.data)
    ELSE IF v = "raise_argument" THEN Raised("TypeError", ErrArgument, m.data)
    ELSE Returned(data, "None")

\* a wrapper that invokes m when no argument settled the call
ConstrainCallLast(c, args, data, m) ==
    LET v == ConstrainLoop(c, args, 1) IN
    IF v = "call" THEN m
    ELSE IF v = "raise_elements" THEN Raised("TypeError", ErrElements, data)
    ELSE IF v = "raise_argument" THEN Raised("TypeError", ErrArgument, data)
    ELSE m

\* method(self, *args) of the wrapper; m is the result the wrapped method
\* gives when it is invoked with the same arguments
Constrain(c, args, data, m) ==
    LET v == ConstrainLoop(c, args, 1) IN
    IF v = "call" THEN m
    ELSE IF v = "raise_elements" THEN Raised("TypeError", ErrElements, data)
    ELSE IF v = "raise_argument" THEN Raised("TypeError", ErrArgument, data)
    ELSE Returned(data, "None")

-----------------------------------------------------------------------------
(* The wrapped methods: list primitives, UserList methods, Vec methods *)

\* isinstance(other, UserList): UserList is an ABC whose subclasses Vec, Array
\* and StrArray inherit Constrained.__subclasshook__, which accepts any class
\* named "str", so a str passes the check
IsUserListInstance(v) == v.cls \in {"str"}

\* list.extend(other) and list.__iadd__(other)
ListExtend(data, other) ==
    IF IsIterable(other) THEN Returned(data \o Iter(other), "None")
    ELSE Raised("TypeError", "object is not iterable", data)

\* list.insert(i, x): the index is clamped to 0..len
ListInsert(data, i, x) ==
    LET n == Len(data)
        j == IF i < 0 THEN (IF i + n < 0 THEN 0 ELSE i + n)
             ELSE (IF i > n THEN n ELSE i)
    IN SubSeq(data, 1, j) \o <<x>> \o SubSeq(data, j + 1, n)

\* list.__imul__(n)
RECURSIVE Repeat(_, _)
Repeat(data, n) == IF n <= 0 THEN <<>> ELSE data \o Repeat(data, n - 1)

ListImul(data, n) ==
    IF n.cls = "int" THEN Returned(Repeat(data, n.id), "self")
    ELSE Raised("TypeError", "can't multiply sequence by non-int", data)

\* list.__setitem__(key, val) with an integer key
ListSetitem(data, key, val) ==
    LET n == Len(data)
        j == IF key < 0 THEN key + n ELSE key
    IN IF j < 0 \/ j >= n
       THEN Raised("IndexError", "list assignment index out of range", data)
       ELSE Returned([data EXCEPT ![j + 1] = val], "None")

UserListAppend(data, args) == Returned(Append(data, args[1]), "None")

UserListInsert(data, args) ==
    Returned(ListInsert(data, args[1].id, args[2]), "None")

UserListExtend(data, args) ==
    IF IsUserListInstance(args[1])
    THEN Raised("AttributeError", "object has no attribute 'data'", data)
    ELSE ListExtend(data, args[1])

UserListIadd(data, args) ==
    IF IsUserListInstance(args[1])
    THEN Raised("AttributeError", "object has no attribute 'data'", data)
    ELSE IF args[1].cls = "list"
    THEN Returned(data \o args[1].items, "self")
    ELSE IF IsIterable(args[1])
    THEN Returned(data \o Iter(args[1]), "self")
    ELSE Raised("TypeError", "object is not iterable", data)

UserListImul(data, args) == ListImul(data, args[1])

\* Vec.extend: self.data.extend(other)
VecExtend(data, args) == ListExtend(data, args[1])

\* Vec.__imul__: self.data *= n; return self
VecImul(data, args) == ListImul(data, args[1])

\* Vec.__iadd__: self.data += other; return self
VecIadd(data, args) ==
    LET r == ListExtend(data, args[1]) IN
    IF r.outcome = "returned" THEN Returned(r.data, "self") ELSE r

\* the function a class wraps under each method name
Wrapped(C, op, data, args) ==
    CASE op = "append" -> UserListAppend(data, args)
      [] op = "insert" -> UserListInsert(data, args)
      [] op = "extend" -> IF C = "Vec" THEN VecExtend(data, args)
                          ELSE UserListExtend(data, args)
      [] op = "__iadd__" -> IF C = "Vec" THEN VecIadd(data, args)
                            ELSE UserListIadd(data, args)
      [] op = "__imul__" -> IF C = "Vec" THEN VecImul(data, args)
                            ELSE UserListImul(data, args)

-----------------------------------------------------------------------------
(* Constrained.__init_subclass__ and the derived types *)

\* a keyword argument `constraints`: absent (None) or a tuple
NoKw == [given |-> FALSE, val |-> <<>>]
Kw(t) == [given |-> TRUE, val |-> t]

\* a derivation in which the type parameter of the base wins
InitSubclassParamFirst(origArgs, kw) ==
    IF origArgs # <<>> THEN origArgs ELSE kw.val

\* cls.__constraints__ as __init_subclass__ sets it: origArgs is
\* get_args(cls.__orig_bases__[0]); `not constraints` holds for None and ()
InitSubclass(origArgs, kw) ==
    IF ~kw.given \/ kw.val = <<>> THEN origArgs ELSE kw.val

\* class Vec(Constrained[T], UserList)
\* class Array(Constrained, UserList, constraints=(int,))
\* class StrArray(Constrained[str], UserList)
\* get_args of the first original base of Array is (): Array has no
\* __orig_bases__ of its own, the one of Constrained is (ABC, Generic[T])
ClassNames == {"Vec", "Array", "StrArray"}

OrigArgs(C) ==
    CASE C = "Vec" -> <<"~T">>
      [] C = "Array" -> <<>>
      [] C = "StrArray" -> <<"str">>

DerivationKw(C) == IF C = "Array" THEN Kw(<<"int">>) ELSE NoKw

-----------------------------------------------------------------------------
(* Instances *)

NoInst == [cls |-> "-", hasOwn |-> FALSE, own |-> <<>>, data |-> <<>>]

\* attribute lookup self.__constraints__: the instance attribute when it is
\* set, the attribute of the class otherwise
Constraints(self, classTable) ==
    IF self.hasOwn THEN self.own ELSE classTable[self.cls]

\* the orders tuple(set(...)) may give the members of S
TuplesOf(S) == {t \in [1..Cardinality(S) -> S] : Range(t) = S}

\* a resolution in which a concrete class-level tuple wins over the argument
OwnConstraintsClassFirst(clsC, arg, kw) ==
    IF clsC # <<>> /\ ~IsTypeVar(clsC[1]) THEN {}
    ELSE IF kw.given THEN {kw.val}
    ELSE TuplesOf({Iter(arg)[k].cls : k \in 1..Len(Iter(arg))})

\* a resolution that infers from the first element of the batch alone
OwnConstraintsFirstElement(clsC, arg, kw) ==
    IF kw.given THEN {kw.val}
    ELSE IF clsC = <<>> \/ IsTypeVar(clsC[1])
         THEN TuplesOf({Iter(arg)[k].cls : k \in 1..(IF Len(Iter(arg)) > 0 THEN 1 ELSE 0)})
         ELSE {}

\* a resolution that infers whenever no argument is given
OwnConstraintsAlwaysInfer(clsC, arg, kw) ==
    IF kw.given THEN {kw.val}
    ELSE TuplesOf({Iter(arg)[k].cls : k \in 1..Len(Iter(arg))})

\* the instance attribute __constrained_init__ assigns before it validates:
\* the set of values it may get, or {} when it assigns none
OwnConstraints(clsC, arg, kw) ==
    IF kw.given THEN {kw.val}
    ELSE IF clsC = <<>> \/ IsTypeVar(clsC[1])
         THEN TuplesOf({Iter(arg)[k].cls : k \in 1..Len(Iter(arg))})
         ELSE {}

\* all(v.__class__ in self.__constraints__ for v in arg)
BatchValid(c, arg) == \A k \in 1..Len(Iter(arg)) : ClassIn(Iter(arg)[k], c)

\* UserList.__init__(initlist), installed as __own_init__
UserListInit(arg) ==
    IF arg.cls = "list" THEN Returned(arg.items, "None")
    ELSE IF IsUserListInstance(arg)
    THEN Raised("AttributeError", "object has no attribute 'data'", <<>>)
    ELSE IF IsIterable(arg) THEN Returned(Iter(arg), "None")
    ELSE Raised("TypeError", "object is not iterable", <<>>)

\* a construction that stores the batch without validating it
ConstrainedInitNoCheck(c, arg) == UserListInit(arg)

\* __constrained_init__ once self.__constraints__ is resolved to c
ConstrainedInit(c, arg) ==
    IF ~BatchValid(c, arg) THEN Raised("TypeError", ErrValue, <<>>)
    ELSE UserListInit(arg)

\* __constrained_setitem__(self, key, val)
ConstrainedSetitem(c, data, key, val) ==
    IF ClassIn(val, c) THEN ListSetitem(data, key.id, val)
    ELSE Raised("TypeError", ErrValue, data)

-----------------------------------------------------------------------------
(* Inputs *)

Atoms == {IntVal(1), StrVal(1), FloatVal(1)}
Elems == Atoms \cup {ListVal(<<IntVal(1)>>)}
Batches == {ListVal(s) : s \in SeqsUpTo(Atoms, MaxArgLen)}
Values == Elems \cup Batches
Indexes == {IntVal(n) : n \in (0 - 1)..MaxLen}
Counts == {IntVal(n) : n \in 0..MaxMul}
ExplicitTuples == {<<>>, <<"str">>, <<"int">>, <<"str", "int">>,
                   <<"list", "int">>}
KwChoices == {NoKw} \cup {Kw(t) : t \in ExplicitTuples}

-----------------------------------------------------------------------------
(* State machine *)

Call(op, kw, r) ==
    [op |-> op, kw |-> kw, outcome |-> r.outcome, msg |-> r.msg, ret |-> r.ret]

\* no isinstance or issubclass check was made yet
NoProbe == [subject |-> [name |-> "-", mro |-> <<>>, kind |-> "-"],
            narrow |-> "-", broad |-> "-"]

\* no construction or indexed assignment is being followed call by call
NoChain == [op |-> "-", level |-> 0, valid |-> TRUE, fn |-> 0, frames |-> 0,
            status |-> "idle"]

Init ==
    /\ classes = [C \in ClassNames |-> InitSubclass(OrigArgs(C), DerivationKw(C))]
    /\ insts = [i \in 1..MaxInst |-> NoInst]
    /\ last = [op |-> "import", kw |-> NoKw, outcome |-> "returned", msg |-> "",
               ret |-> "None"]
    /\ probe = NoProbe
    /\ chain = NoChain

\* the same, with an instance's tuple stored on its class
ClassesAfterInitShared(classTable, C, own) ==
    IF own.given THEN [classTable EXCEPT ![C] = own.val] ELSE classTable

\* the class attributes after __constrained_init__ ran on an instance of C:
\* it assigns self.__constraints__, never cls.__constraints__
ClassesAfterInit(classTable, C, own) == classTable

\* x = C(arg, constraints=kw) into the free slot i
Construct(i, C, arg, kw) ==
    /\ C \in DOMAIN classes
    /\ insts[i] = NoInst
    /\ \A j \in 1..(i - 1) : insts[j] # NoInst
    /\ \E own \in IF OwnConstraints(classes[C], arg, kw) = {}
                  THEN {NoKw}
                  ELSE {Kw(t) : t \in OwnConstraints(classes[C], arg, kw)} :
         LET self == [cls |-> C, hasOwn |-> own.given, own |-> own.val,
                      data |-> <<>>]
             r == ConstrainedInit(Constraints(self, classes), arg)
         IN /\ insts' = IF r.outcome = "returned"
                        THEN [insts EXCEPT ![i] = [self EXCEPT !.data = r.data]]
                        ELSE insts
            /\ classes' = ClassesAfterInit(classes, C, own)
            /\ last' = Call("__init__", kw, r)
    /\ UNCHANGED <<probe, chain>>

\* the same, with the instance's own tuple dropped by the call
SelfAfterDropped(self, r) == [self EXCEPT !.data = r.data, !.hasOwn = FALSE]

\* the instance after one of its methods ran: the guards and the list
\* methods work on self.data and never assign self.__constraints__
SelfAfter(self, r) == [self EXCEPT !.data = r.data]

\* self.op(*args) for an instance of class C: the bodies of Vec, Array and
\* StrArray wrap each of the five methods with _constrain; a class whose
\* body wraps nothing inherits the methods of UserList as they are
Method(C, c, op, data, args) ==
    IF C \in ClassNames
    THEN Constrain(c, args, data, Wrapped(C, op, data, args))
    ELSE Wrapped(C, op, data, args)

\* a call of append, insert, extend, += or *= on instance i; cap
\* bounds the length of the element list
Guarded(op, i, args, cap) ==
    /\ insts[i] # NoInst
    /\ LET self == insts[i]
           r == Method(self.cls, Constraints(self, classes), op, self.data, args)
       IN /\ Len(r.data) <= cap
          /\ insts' = [insts EXCEPT ![i] = SelfAfter(self, r)]
          /\ last' = Call(op, NoKw, r)
    /\ UNCHANGED <<classes, probe, chain>>

AppendCall(i, x, cap) == Guarded("append", i, <<x>>, cap)
InsertCall(i, k, x, cap) == Guarded("insert", i, <<k, x>>, cap)
ExtendCall(i, other, cap) == Guarded("extend", i, <<other>>, cap)
IaddCall(i, other, cap) == Guarded("__iadd__", i, <<other>>, cap)
ImulCall(i, n, cap) == Guarded("__imul__", i, <<n>>, cap)

\* self[key] = val
SetitemCall(i, key, val) ==
    /\ insts[i] # NoInst
    /\ LET self == insts[i]
           r == ConstrainedSetitem(Constraints(self, classes), self.data, key, val)
       IN /\ insts' = [insts EXCEPT ![i] = SelfAfter(self, r)]
          /\ last' = Call("__setitem__", NoKw, r)
    /\ UNCHANGED <<classes, probe, chain>>

\* one container, the full input sets
Next ==
    \/ \E C \in ClassNames, arg \in Batches, kw \in KwChoices :
         Construct(1, C, arg, kw)
    \/ \E x \in Elems : AppendCall(1, x, MaxLen)
    \/ \E k \in Indexes, x \in Elems : InsertCall(1, k, x, MaxLen)
    \/ \E other \in Values : ExtendCall(1, other, MaxLen)
    \/ \E other \in Values : IaddCall(1, other, MaxLen)
    \/ \E n \in Counts : ImulCall(1, n, MaxLen)
    \/ \E k \in Indexes, x \in Elems : SetitemCall(1, k, x)

Spec == Init /\ [][Next]_vars

\* several containers side by side, small input sets
MultiAtoms == {IntVal(1), StrVal(1)}
MultiBatches == {ListVal([k \in 1..n |-> a]) : a \in MultiAtoms,
                                                n \in 0..MaxLenMulti}
MultiKw == {NoKw, Kw(<<"str">>)}
MultiClasses == {"Vec", "Array"}

NextMulti ==
    \/ \E i \in 1..MaxInst, C \in MultiClasses, arg \in MultiBatches, kw \in MultiKw :
         Construct(i, C, arg, kw)
    \/ \E i \in 1..MaxInst, x \in MultiAtoms : AppendCall(i, x, MaxLenMulti)
    \/ \E i \in 1..MaxInst : InsertCall(i, IntVal(0), IntVal(1), MaxLenMulti)
    \/ \E i \in 1..MaxInst, other \in MultiBatches : ExtendCall(i, other, MaxLenMulti)
    \/ \E i \in 1..MaxInst, other \in MultiBatches : IaddCall(i, other, MaxLenMulti)
    \/ \E i \in 1..MaxInst : ImulCall(i, IntVal(0), MaxLenMulti)
    \/ \E i \in 1..MaxInst, x \in MultiAtoms : SetitemCall(i, IntVal(0), x)

SpecMulti == Init /\ [][NextMulti]_vars

\* deriving a container type, then constructing an instance of it.
\* get_args of the first original base: nothing, the type variable T, or
\* one concrete type
TypeParams == {<<>>, <<"~T">>, <<"str">>, <<"int">>}

\* class C(Constrained[...], UserList, constraints=kw): the class statement
\* runs __init_subclass__, which sets the class-level tuple of C
Derive(C, origArgs, kw) ==
    /\ \A i \in 1..MaxInst : insts[i] = NoInst
    /\ classes' = [D \in DOMAIN classes \cup {C} |->
                     IF D = C THEN InitSubclass(origArgs, kw) ELSE classes[D]]
    /\ last' = [op |-> "class", kw |-> kw, outcome |-> "returned", msg |-> "",
                ret |-> "None"]
    /\ UNCHANGED <<insts, probe, chain>>

\* the body of the derived class is empty
NextDerive ==
    \/ \E origArgs \in TypeParams, kw \in KwChoices :
         Derive("Derived", origArgs, kw)
    \/ \E arg \in Batches, kw \in KwChoices : Construct(1, "Derived", arg, kw)
    \/ \E x \in Elems : AppendCall(1, x, MaxLen)

SpecDerive == Init /\ [][NextDerive]_vars

-----------------------------------------------------------------------------
(* The type checks *)

\* names that __subclasshook__ accepts whatever the class declares
Preregistered == {"str", "array", "IsConstrained"}

TypeNames == Preregistered \cup {"list", "Vec", "Foo"}

\* for each class of an __mro__, whether "__constraints__" is in its __dict__
MroFlags == UNION {[1..n -> BOOLEAN] : n \in 1..MaxMro}

\* the subject of a check: a class (name and mro are its own), an instance of
\* a class (name and mro are those of its class), or an instance that has
\* __constraints__ set on itself
Subjects == {[name |-> n, mro |-> f, kind |-> k] :
                n \in TypeNames, f \in MroFlags,
                k \in {"class", "instance", "own"}}

PyBool(b) == IF b THEN "True" ELSE "False"

\* Constrained.__subclasshook__(C)
SubclassHook(C) ==
    IF C.name \in Preregistered \/ \E k \in 1..Len(C.mro) : C.mro[k]
    THEN "True"
    ELSE "NotImplemented"

\* issubclass(C, Constrained): ABCMeta asks the hook first; on NotImplemented
\* it looks for C among the real and the registered subclasses, and a real
\* subclass has "__constraints__" in its __dict__ since __init_subclass__
\* sets it, so the hook has already accepted it
IssubclassConstrained(C) == SubclassHook(C) = "True"

\* hasattr(x, "__constraints__")
HasConstraintsAttr(x) ==
    x.kind = "own" \/ \E k \in 1..Len(x.mro) : x.mro[k]

\* a narrow check that asks the hook of Constrained instead
IsinstanceByHook(x) == IssubclassConstrained(x)

\* isinstance(x, IsConstrained): IsConstrained is a runtime-checkable
\* protocol whose only member is the attribute __constraints__
IsinstanceIsConstrained(x) == HasConstraintsAttr(x)

\* print(isinstance(x, IsConstrained))
IsinstanceCall(x) ==
    /\ probe' = [subject |-> x,
                 narrow |-> PyBool(IsinstanceIsConstrained(x)),
                 broad |-> IF probe.subject = x THEN probe.broad ELSE "-"]
    /\ UNCHANGED <<classes, insts, last, chain>>

\* print(issubclass(C, Constrained))
IssubclassCall(C) ==
    /\ C.kind = "class"
    /\ probe' = [subject |-> C,
                 narrow |-> IF probe.subject = C THEN probe.narrow ELSE "-",
                 broad |-> PyBool(IssubclassConstrained(C))]
    /\ UNCHANGED <<classes, insts, last, chain>>

NextTypes ==
    \/ \E x \in Subjects : IsinstanceCall(x)
    \/ \E C \in Subjects : IssubclassCall(C)

SpecTypes == Init /\ [][NextTypes]_vars

-----------------------------------------------------------------------------
(* The guards of a type derived from a derived type *)

\* A container type of level 1 derives from Constrained and UserList (Vec);
\* a type of level k + 1 derives from a type of level k (class Sub(Vec)).
\* __init_subclass__ runs for the type of every level and installs the two
\* guards on it.  A function is named by a number: 0 is the method of
\* UserList, k >= 1 is the guard installed on the type of level k.
Levels == 1..MaxLevel

\* cls.__init__ as the class statement of level k finds it, before the
\* guard is installed: the guard of the base type, or UserList.__init__
InheritedInit(k) == IF k = 1 THEN 0 ELSE k - 1

\* cls.__own_init__ = cls.__init__
OwnInit(k) == InheritedInit(k)

\* cls.__init__ = __constrained_init__;  cls.__setitem__ = __constrained_setitem__
InitAttr(k) == k
SetitemAttr(k) == k

\* self.__own_init__ in a guard that runs for an instance of level L: the
\* attribute of type(self), whichever level's guard is running
InitCallee(L) == OwnInit(L)

\* super(self.__class__, self).__setitem__ for an instance of level L: the
\* attribute of the base of type(self), whichever level's guard is running
SetitemCallee(L) == IF L = 1 THEN 0 ELSE SetitemAttr(L - 1)

\* x = C(arg) or x[key] = val for a type C of level L; valid tells whether
\* the value types are in the AllowedTypeSet
BeginCall(op, L, valid) ==
    /\ chain.status # "running"
    /\ chain' = [op |-> op, level |-> L, valid |-> valid,
                 fn |-> IF op = "__init__" THEN InitAttr(L) ELSE SetitemAttr(L),
                 frames |-> 1, status |-> "running"]
    /\ UNCHANGED <<classes, insts, last, probe>>

\* one run of a guard: it validates, then calls the next function
GuardStep ==
    /\ chain.status = "running"
    /\ chain.fn >= 1
    /\ chain' = IF ~chain.valid
                THEN [chain EXCEPT !.status = "TypeError"]
                ELSE IF chain.frames >= RecursionLimit
                THEN [chain EXCEPT !.status = "RecursionError"]
                ELSE [chain EXCEPT !.fn = IF chain.op = "__init__"
                                          THEN InitCallee(chain.level)
                                          ELSE SetitemCallee(chain.level),
                                   !.frames = chain.frames + 1]
    /\ UNCHANGED <<classes, insts, last, probe>>

\* UserList.__init__ or UserList.__setitem__ runs and returns
UserListStep ==
    /\ chain.status = "running"
    /\ chain.fn = 0
    /\ chain' = [chain EXCEPT !.status = "returned"]
    /\ UNCHANGED <<classes, insts, last, probe>>

NextSub ==
    \/ \E op \in {"__init__", "__setitem__"}, L \in Levels, valid \in BOOLEAN :
         BeginCall(op, L, valid)
    \/ GuardStep
    \/ UserListStep

SpecSub == Init /\ [][NextSub]_vars

-----------------------------------------------------------------------------
(* Properties *)

MutatingOps == {"append", "insert", "extend", "__iadd__", "__imul__",
                "__setitem__"}
ConstraintErrors == {ErrArgument, ErrElements, ErrValue}

\* the AllowedTypeSet of container i
Allowed(i) == Range(Constraints(insts[i], classes))
AllowedAfter(i) == Range(Constraints(insts[i], classes)')

\* the runtime types of the elements of a batch
TypesOf(arg) == {Iter(arg)[k].cls : k \in 1..Len(Iter(arg))}

\* the class-level tuple is a fixed declaration, not () and not a type variable
Concrete(t) == t # <<>> /\ ~IsTypeVar(t[1])

\* C1: every element stored in a container has a runtime type that is a
\* member of the container's resolved AllowedTypeSet.
C1_StoredTypesAllowed ==
    \A i \in 1..MaxInst :
        insts[i] # NoInst =>
            \A k \in 1..Len(insts[i].data) : insts[i].data[k].cls \in Allowed(i)

\* C2: a mutating call rejected with a type-constraint error leaves every
\* container's element sequence and AllowedTypeSet, and the class-level
\* declarations, as they were before the call.
C2_RejectedLeavesUnchanged ==
    [][(/\ last'.op \in MutatingOps
        /\ last'.outcome = "TypeError"
        /\ last'.msg \in ConstraintErrors)
       => (insts' = insts /\ classes' = classes)]_vars

\* a rejected mutating call on a non-empty container
C2_Witness ==
    /\ last.op \in MutatingOps
    /\ last.outcome = "TypeError"
    /\ last.msg \in ConstraintErrors
    /\ insts[1] # NoInst
    /\ Len(insts[1].data) > 0

\* C3: a mutating call (append, insert, extend, +=, indexed assignment) that
\* offers an element whose runtime type is not in the AllowedTypeSet raises a
\* type-constraint TypeError.
C3_ViolationRaises ==
    [][/\ \A x \in Elems :
            (AppendCall(1, x, MaxLen) /\ x.cls \notin Allowed(1))
                => last'.outcome = "TypeError"
       /\ \A k \in Indexes, x \in Elems :
            (InsertCall(1, k, x, MaxLen) /\ x.cls \notin Allowed(1))
                => last'.outcome = "TypeError"
       /\ \A other \in Batches :
            (ExtendCall(1, other, MaxLen) /\ ~(TypesOf(other) \subseteq Allowed(1)))
                => last'.outcome = "TypeError"
       /\ \A other \in Batches :
            (IaddCall(1, other, MaxLen) /\ ~(TypesOf(other) \subseteq Allowed(1)))
                => last'.outcome = "TypeError"
       /\ \A k \in Indexes, x \in Elems :
            (SetitemCall(1, k, x) /\ x.cls \notin Allowed(1))
                => last'.outcome = "TypeError"]_vars

\* C4: extend(seq) and c += seq with every element of seq of an allowed type
\* succeed and leave the container holding its previous elements followed by
\* the elements of seq.
C4_ExtendAppendsBatch ==
    [][\A other \in Batches :
         (/\ ExtendCall(1, other, MaxLen) \/ IaddCall(1, other, MaxLen)
          /\ other.items # <<>>
          /\ TypesOf(other) \subseteq Allowed(1))
         => (/\ last'.outcome = "returned"
             /\ insts'[1].data = insts[1].data \o other.items)]_vars

\* C5: extend and += with a sequence that has an element of a type outside
\* the AllowedTypeSet add none of the supplied elements: the container holds
\* exactly its previous elements afterwards.
C5_BadBatchAddsNothing ==
    [][\A other \in Batches :
         (/\ ExtendCall(1, other, MaxLen) \/ IaddCall(1, other, MaxLen)
          /\ ~(TypesOf(other) \subseteq Allowed(1)))
         => insts'[1].data = insts[1].data]_vars

\* C6: append(x), insert(i, x) and c[i] = x with a valid index i are decided
\* by the runtime type of x: of an allowed type, x is stored (at the end, at
\* index i, replacing the element at index i); otherwise the call fails with
\* a TypeError and the container is unchanged.
C6_SingleElementByType ==
    [][/\ \A x \in Elems :
            AppendCall(1, x, MaxLen) =>
                IF x.cls \in Allowed(1)
                THEN /\ last'.outcome = "returned"
                     /\ insts'[1].data = Append(insts[1].data, x)
                ELSE last'.outcome = "TypeError" /\ insts' = insts
       /\ \A k \in Indexes, x \in Elems :
            (InsertCall(1, k, x, MaxLen) /\ k.id \in 0..Len(insts[1].data)) =>
                IF x.cls \in Allowed(1)
                THEN /\ last'.outcome = "returned"
                     /\ insts'[1].data = ListInsert(insts[1].data, k.id, x)
                ELSE last'.outcome = "TypeError" /\ insts' = insts
       /\ \A k \in Indexes, x \in Elems :
            (SetitemCall(1, k, x) /\ k.id \in 0..(Len(insts[1].data) - 1)) =>
                IF x.cls \in Allowed(1)
                THEN /\ last'.outcome = "returned"
                     /\ insts'[1].data = [insts[1].data EXCEPT ![k.id + 1] = x]
                ELSE last'.outcome = "TypeError" /\ insts' = insts]_vars

\* C7: with an explicit tuple supplied to construction the batch is validated
\* against that tuple alone, and on success the instance's AllowedTypeSet is
\* exactly that tuple, whatever the class declares.
C7_ExplicitTupleWins ==
    [][last'.op = "__init__" =>
       \A C \in ClassNames, arg \in Batches, kw \in KwChoices :
         (Construct(1, C, arg, kw) /\ kw.given) =>
             IF TypesOf(arg) \subseteq Range(kw.val)
             THEN /\ last'.outcome = "returned"
                  /\ Constraints(insts'[1], classes') = kw.val
                  /\ insts'[1].data = arg.items
             ELSE /\ last'.outcome = "TypeError"
                  /\ insts'[1] = NoInst]_vars

\* an Array, declared with (int,), built from strings under an explicit (str,)
C7_Witness ==
    /\ last.op = "__init__" /\ last.kw = Kw(<<"str">>) /\ last.outcome = "returned"
    /\ insts[1].cls = "Array"
    /\ classes["Array"] = <<"int">>
    /\ Constraints(insts[1], classes) = <<"str">>
    /\ Len(insts[1].data) > 0

\* C8: construction with no explicit constraints of a type whose class-level
\* tuple is empty or a type variable succeeds, and the instance's
\* AllowedTypeSet is the set of distinct runtime types of the batch, each
\* listed once.
C8_InferredFromBatch ==
    [][last'.op = "__init__" =>
       \A C \in ClassNames, arg \in Batches :
         (Construct(1, C, arg, NoKw) /\ ~Concrete(classes[C])) =>
             /\ last'.outcome = "returned"
             /\ insts'[1].data = arg.items
             /\ AllowedAfter(1) = TypesOf(arg)
             /\ Len(Constraints(insts'[1], classes')) = Cardinality(TypesOf(arg))]_vars

\* a container built without constraints from a batch of two types
C8_Witness ==
    /\ last.op = "__init__" /\ ~last.kw.given /\ last.outcome = "returned"
    /\ insts[1].cls = "Vec"
    /\ Len(insts[1].data) = 2
    /\ insts[1].data[1].cls # insts[1].data[2].cls
    /\ Cardinality(Allowed(1)) = 2

\* C9: construction with no explicit constraints of a type with a concrete
\* class-level tuple succeeds exactly when every element of the batch has a
\* type of that tuple, and the instance's AllowedTypeSet is the class-level
\* tuple, which the construction leaves as it is.
C9_ClassLevelKept ==
    [][last'.op = "__init__" =>
       \A C \in ClassNames, arg \in Batches :
         (Construct(1, C, arg, NoKw) /\ Concrete(classes[C])) =>
             /\ classes' = classes
             /\ IF TypesOf(arg) \subseteq Range(classes[C])
                THEN /\ last'.outcome = "returned"
                     /\ Constraints(insts'[1], classes') = classes[C]
                     /\ insts'[1].data = arg.items
                ELSE /\ last'.outcome = "TypeError"
                     /\ insts'[1] = NoInst]_vars

\* an Array or StrArray built from a non-empty batch without constraints
C9_Witness ==
    /\ last.op = "__init__" /\ ~last.kw.given /\ last.outcome = "returned"
    /\ insts[1].cls \in {"Array", "StrArray"}
    /\ Len(insts[1].data) > 0
    /\ Constraints(insts[1], classes) = classes[insts[1].cls]

\* C10: a construction whose batch has an element of a type outside the
\* resolved AllowedTypeSet (the explicit tuple, else the concrete class-level
\* tuple) fails with the TypeError of the constructor, produces no instance
\* and leaves the class-level tuples and every existing instance unchanged.
C10_FailedConstruction ==
    [][last'.op = "__init__" =>
       \A i \in 1..MaxInst, C \in MultiClasses, arg \in MultiBatches, kw \in MultiKw :
         (/\ Construct(i, C, arg, kw)
          /\ kw.given \/ Concrete(classes[C])
          /\ ~(TypesOf(arg) \subseteq Range(IF kw.given THEN kw.val ELSE classes[C])))
         => (/\ last'.outcome = "TypeError"
             /\ last'.msg = ErrValue
             /\ insts'[i] = NoInst
             /\ insts' = insts
             /\ classes' = classes)]_vars

\* a construction failed while an earlier, non-empty container exists
C10_Witness ==
    /\ last.op = "__init__" /\ last.outcome = "TypeError" /\ last.msg = ErrValue
    /\ insts[1] # NoInst
    /\ Len(insts[1].data) > 0
    /\ insts[2] = NoInst

\* C11: c *= n succeeds for every container, whatever its AllowedTypeSet, and
\* every integer count n: the container then holds n repetitions of its
\* elements and its AllowedTypeSet is unchanged.
C11_ImulSucceeds ==
    [][last'.op = "__imul__" =>
       \A n \in Counts :
         ImulCall(1, n, MaxLen) =>
             /\ last'.outcome = "returned"
             /\ insts'[1].data = Repeat(insts[1].data, n.id)
             /\ AllowedAfter(1) = Allowed(1)]_vars

\* C12 (as claimed): after every successful construction the resolved
\* AllowedTypeSet of the instance is non-empty.
C12_NonEmptyAfterConstruction ==
    \A i \in 1..MaxInst : insts[i] # NoInst => Allowed(i) # {}

\* C12 (amended): a successful construction resolves an empty AllowedTypeSet
\* only from an empty batch that comes with an explicit empty tuple, or with
\* no explicit tuple and no concrete class-level tuple; every successful
\* construction from a non-empty batch resolves a non-empty AllowedTypeSet.
C12_NonEmptyUnlessEmptyBatch ==
    [][last'.op = "__init__" =>
       \A C \in ClassNames, arg \in Batches, kw \in KwChoices :
         (Construct(1, C, arg, kw) /\ last'.outcome = "returned") =>
             /\ arg.items # <<>> => AllowedAfter(1) # {}
             /\ AllowedAfter(1) = {} <=>
                  /\ arg.items = <<>>
                  /\ IF kw.given THEN kw.val = <<>>
                                 ELSE ~Concrete(classes[C])]_vars

\* a Vec built from a batch of two values of one type, its set inferred
\* from them
C12_Witness ==
    /\ last.op = "__init__" /\ last.outcome = "returned" /\ ~last.kw.given
    /\ insts[1].cls = "Vec"
    /\ Len(insts[1].data) = 2
    /\ Cardinality(Allowed(1)) = 1

\* C13: once construction has resolved the AllowedTypeSet of an instance, no
\* call of append, insert, extend, +=, *= or indexed assignment, successful
\* or rejected, changes it.
C13_AllowedSetFixed ==
    [][last'.op \in MutatingOps =>
       \A i \in 1..MaxInst :
         insts[i] # NoInst =>
             /\ insts'[i] # NoInst
             /\ Constraints(insts'[i], classes') = Constraints(insts[i], classes)]_vars

\* a container with a set of its own, after a successful indexed assignment
\* that followed its construction and an earlier growth
C13_Witness ==
    /\ last.op = "__setitem__" /\ last.outcome = "returned"
    /\ insts[1].cls = "Vec" /\ insts[1].hasOwn
    /\ Allowed(1) = {"str", "int"}
    /\ Len(insts[1].data) = 2

\* a step of the several-container specification that constructs or calls
\* a method of container i
MultiStepOn(i) ==
    \/ /\ last'.op = "__init__"
       /\ \E C \in MultiClasses, arg \in MultiBatches, kw \in MultiKw :
            Construct(i, C, arg, kw)
    \/ /\ last'.op = "append"
       /\ \E x \in MultiAtoms : AppendCall(i, x, MaxLenMulti)
    \/ /\ last'.op = "insert"
       /\ InsertCall(i, IntVal(0), IntVal(1), MaxLenMulti)
    \/ /\ last'.op = "extend"
       /\ \E other \in MultiBatches : ExtendCall(i, other, MaxLenMulti)
    \/ /\ last'.op = "__iadd__"
       /\ \E other \in MultiBatches : IaddCall(i, other, MaxLenMulti)
    \/ /\ last'.op = "__imul__"
       /\ ImulCall(i, IntVal(0), MaxLenMulti)
    \/ /\ last'.op = "__setitem__"
       /\ \E x \in MultiAtoms : SetitemCall(i, IntVal(0), x)

\* C14: constructing an instance (with an explicit or an inferred tuple) or
\* calling a mutating method of it leaves every class-level tuple unchanged,
\* and leaves the elements and the AllowedTypeSet of every other instance,
\* of the same or of another derived type, unchanged.
C14_OthersUntouched ==
    [][/\ classes' = classes
       /\ insts' # insts =>
            \A i \in 1..MaxInst :
              MultiStepOn(i) =>
                  \A j \in (1..MaxInst) \ {i} :
                      /\ insts'[j] = insts[j]
                      /\ insts[j] # NoInst =>
                           Constraints(insts'[j], classes')
                             = Constraints(insts[j], classes)]_vars

\* a second Array was just built with an explicit tuple while the first one,
\* which holds an element, keeps the class-level tuple
C14_Witness ==
    /\ last.op = "__init__" /\ last.outcome = "returned" /\ last.kw.given
    /\ insts[1].cls = "Array" /\ ~insts[1].hasOwn
    /\ insts[1].data = <<IntVal(1)>>
    /\ insts[2].cls = "Array" /\ insts[2].hasOwn
    /\ Allowed(2) = {"str"} /\ Allowed(1) = {"int"}

\* C15: a failed guarded call reports which kind of violation occurred: an
\* iterable argument that holds an element of a disallowed type raises the
\* TypeError "Invalid element types", a non-iterable argument of a
\* disallowed type raises the TypeError "Invalid type for argument".
C15_ErrorKindReported ==
    [][last'.op \in {"append", "extend", "__iadd__"} =>
       /\ \A other \in Batches :
            (/\ ExtendCall(1, other, MaxLen) \/ IaddCall(1, other, MaxLen)
             /\ "list" \notin Allowed(1)
             /\ ~(TypesOf(other) \subseteq Allowed(1)))
            => (last'.outcome = "TypeError" /\ last'.msg = ErrElements)
       /\ \A x \in Atoms :
            (/\ AppendCall(1, x, MaxLen)
             /\ ~IsIterable(x)
             /\ x.cls \notin Allowed(1))
            => (last'.outcome = "TypeError" /\ last'.msg = ErrArgument)]_vars

\* C18: a container constructed from an empty batch with no explicit tuple
\* and no concrete class-level tuple is constructed successfully with an
\* empty AllowedTypeSet, and no later append, insert, extend, += or indexed
\* assignment adds an element: a container whose AllowedTypeSet is empty is
\* empty in every state.
C18_EmptySetStaysEmpty ==
    /\ [][last'.op = "__init__" =>
          \A C \in ClassNames :
            (Construct(1, C, ListVal(<<>>), NoKw) /\ ~Concrete(classes[C])) =>
                /\ last'.outcome = "returned"
                /\ insts'[1] # NoInst
                /\ AllowedAfter(1) = {}
                /\ insts'[1].data = <<>>]_vars
    /\ [][(last'.op \in MutatingOps /\ Allowed(1) = {}) =>
            (AllowedAfter(1) = {} /\ insts'[1].data = <<>>)]_vars
    /\ [](\A i \in 1..MaxInst :
            (insts[i] # NoInst /\ Allowed(i) = {}) => insts[i].data = <<>>)

\* a Vec built from the empty batch, after an append that offered an
\* iterable value and returned without storing it
C18_Witness ==
    /\ last.op = "append" /\ last.outcome = "returned"
    /\ insts[1].cls = "Vec" /\ insts[1].hasOwn
    /\ Allowed(1) = {}
    /\ insts[1].data = <<>>

\* C17 (as claimed): on derivation the class-level tuple of the new type is
\* the explicit derivation tuple if one is given, otherwise the type
\* parameter of the generic base (a concrete type, or the type variable left
\* as an open marker); an instance of a type without a concrete class-level
\* tuple gets a tuple of its own, free of type variables, at construction.
C17_DerivationTupleAsClaimed ==
    /\ [][last'.op = "class" =>
          \A origArgs \in TypeParams, kw \in KwChoices :
            Derive("Derived", origArgs, kw) =>
                classes'["Derived"] = IF kw.given THEN kw.val ELSE origArgs]_vars
    /\ [][(last'.op = "__init__" /\ last'.outcome = "returned"
           /\ ~Concrete(classes["Derived"])) =>
             (insts'[1].hasOwn /\ "~T" \notin AllowedAfter(1))]_vars

\* C17 (amended): on derivation the class-level tuple of the new type is the
\* explicit derivation tuple if a non-empty one is given; otherwise (none, or
\* the empty tuple) it is the type parameter of the generic base, a concrete
\* type or the type variable left as an open marker; an instance of a type
\* without a concrete class-level tuple gets a tuple of its own, free of type
\* variables, at construction.
C17_DerivationTuple ==
    /\ [][last'.op = "class" =>
          \A origArgs \in TypeParams, kw \in KwChoices :
            Derive("Derived", origArgs, kw) =>
                classes'["Derived"] = IF kw.given /\ kw.val # <<>>
                                    THEN kw.val ELSE origArgs]_vars
    /\ [][(last'.op = "__init__" /\ last'.outcome = "returned"
           /\ ~Concrete(classes["Derived"])) =>
             (insts'[1].hasOwn /\ "~T" \notin AllowedAfter(1))]_vars

\* a type derived with the type variable as its marker, and an instance of
\* it whose tuple was resolved from its batch
C17_Witness ==
    /\ "Derived" \in DOMAIN classes
    /\ classes["Derived"] = <<"~T">>
    /\ last.op = "__init__" /\ last.outcome = "returned" /\ ~last.kw.given
    /\ insts[1].cls = "Derived" /\ insts[1].hasOwn
    /\ Allowed(1) = {"int"}

\* C16: the IsConstrained check is true exactly for the objects that expose
\* a __constraints__ attribute, so it is false for the pre-registered foreign
\* types str and array, which lack it; the Constrained check is true for
\* those pre-registered types and for every type that declares
\* __constraints__ somewhere in its ancestry.
C16_NarrowAndBroadCheck ==
    LET x == probe.subject
        exposes == x.kind = "own" \/ TRUE \in Range(x.mro)
    IN /\ probe.narrow # "-" =>
            /\ probe.narrow = "True" <=> exposes
            /\ (x.name \in {"str", "array"} /\ ~exposes) => probe.narrow = "False"
       /\ probe.broad # "-" =>
            /\ x.name \in {"str", "array"} => probe.broad = "True"
            /\ TRUE \in Range(x.mro) => probe.broad = "True"

\* the class str, which declares no __constraints__, after both checks
C16_Witness ==
    /\ probe.subject = [name |-> "str", mro |-> <<FALSE, FALSE>>, kind |-> "class"]
    /\ probe.narrow = "False"
    /\ probe.broad = "True"

\* C19: construction and indexed assignment terminate for an instance of
\* every derived type, a type derived from an already-derived container type
\* included: the guards reach the initializer or the assignment of the
\* underlying sequence after finitely many calls, and no call ends because
\* a guard re-entered itself until the interpreter's recursion limit.
C19_GuardsReachSequence ==
    /\ chain.status # "RecursionError"
    /\ chain.status = "running" => chain.frames <= chain.level + 1

====
